---- MODULE Spec2Model ----
(***************************************************************************)
(* State-machine model of the notes core of the repository:                *)
(*   StorageService (services/storage.service.ts)  - the storage adapter   *)
(*   NotesService   (services/notes.service.ts)    - the note repository   *)
(*                                                                         *)
(* A JSON object is a TLA+ function whose domain is the set of the fields  *)
(* the object has, so a record read back from storage may lack fields.     *)
(* An ISO-8601 timestamp is the number of milliseconds it denotes          *)
(* (Date.parse / toISOString are inverse on the strings the code writes).  *)
(* An id `${Date.now()}-${random}` is the pair <<Date.now(), random>>.     *)
(***************************************************************************)
EXTENDS Integers, Sequences, FiniteSets, TLC

VARIABLES
    env,     \* condition of globalThis.localStorage: "ok", "unavailable", "quota"
    store,   \* the raw value held under the key 'notes.v1'
    clock,   \* Date.now() in milliseconds
    pc,      \* "boot" before the NotesService constructor has run, then "ready"
    notes,   \* NotesService.notes, the in-memory collection
    synced,  \* whether this NotesService has called persist() since it was constructed
    ops,     \* number of steps taken since the first construction
    other,   \* a second NotesService over the same localStorage, when there is one
    last     \* what the last operation was given, returned and did

vars == <<env, store, clock, pc, notes, synced, ops, other, last>>

----------------------------------------------------------------------------
(* Bounds of the model *)

\* number of steps (operations, clock ticks, reloads) after the first construction
MaxOps == 2
\* number of distinct outcomes of Math.random().toString(36).slice(2, 8)
NumRand == 3

----------------------------------------------------------------------------
(* Program constants *)

\* seedNotes: now.getTime() - 1000 * 60 * 60
SeedOffset1 == 1000 * 60 * 60
\* seedNotes: now.getTime() - 1000 * 60 * 10
SeedOffset2 == 1000 * 60 * 10

----------------------------------------------------------------------------
(* Time and ids *)

\* Date.now() when the session starts
Epoch == 3 * SeedOffset1
\* timestamps written by earlier sessions, and one written under a clock
\* that ran ahead of this session's
Past1 == Epoch - 2 * SeedOffset1
Past2 == Epoch - SeedOffset1 - 1
Future == Epoch + SeedOffset1

RandVals == 1 .. NumRand

\* the d-th value after r, cyclically: d ranges over 1 .. NumRand, so a second
\* draw NextRand(r, d) is any value of RandVals, r itself included (d = NumRand)
NextRand(r, d) == ((r - 1 + d) % NumRand) + 1

NoteFields == {"id", "title", "content", "tags", "createdAt", "updatedAt"}

Has(x, f) == f \in DOMAIN x

\* a JavaScript value that is absent, undefined or the empty string is falsy;
\* an id or a timestamp that is the empty string is modelled as an absent one
Falsy(x, f) == ~Has(x, f) \/ (f \in {"title", "content"} /\ x[f] = "")

----------------------------------------------------------------------------
(* StorageService *)

NoValue == [kind |-> "absent", items |-> <<>>]
Corrupt == [kind |-> "corrupt", items |-> <<>>]
Scalar == [kind |-> "scalar", items |-> <<>>]

\* JSON.stringify of an array of objects: every defined field is written
JSONstringify(value) == [kind |-> "array", items |-> value]

\* the `storage` getter: null unless localStorage is there with its methods
storageRef(e) == IF e = "unavailable" THEN "null" ELSE "ls"

\* read<T>(key): the parsed value, or null; as [isArray, items]
NullValue == [isArray |-> FALSE, items |-> <<>>]

read(e, raw) ==
    IF storageRef(e) = "null" THEN NullValue
    ELSE IF raw.kind = "absent" THEN NullValue
    ELSE IF raw.kind = "corrupt" THEN NullValue
    ELSE IF raw.kind = "scalar" THEN [isArray |-> FALSE, items |-> <<>>]
    ELSE [isArray |-> TRUE, items |-> raw.items]

\* write<T>(key, value): the raw value held afterwards
write(e, raw, value) ==
    IF storageRef(e) = "null" THEN raw
    ELSE IF e = "quota" THEN raw
    ELSE JSONstringify(value)

\* remove(key): the raw value held afterwards
remove(e, raw) ==
    IF storageRef(e) = "null" THEN raw
    ELSE NoValue

\* JSON.parse throws a SyntaxError on text that is not JSON
parseThrows(raw) == raw.kind = "corrupt"

\* localStorage.setItem throws when the browser rejects the write
setItemThrows(e) == e = "quota"

\* a method body outside any try block: what it throws reaches the caller
uncaught(threw) == threw

\* try { ... } catch { }: nothing thrown inside reaches the caller
caught(threw) == FALSE

\* whether read, write and remove end by throwing
readRaises(e, raw) ==
    caught(storageRef(e) # "null" /\ raw.kind # "absent" /\ parseThrows(raw))
writeRaises(e) == caught(storageRef(e) # "null" /\ setItemThrows(e))
removeRaises(e) == caught(FALSE)

\* the error that leaves a method of NotesService which calls read or write
ErrorOf(readThrew, writeThrew) ==
    IF readThrew THEN "SyntaxError"
    ELSE IF writeThrew THEN "QuotaExceededError"
    ELSE "none"

----------------------------------------------------------------------------
(* NotesService helpers *)

\* a persist() that keeps the stored notes the collection does not hold
persistMerging(e, raw, list) ==
    LET kept == SelectSeq(read(e, raw).items,
                          LAMBDA n : \A i \in 1 .. Len(list) : list[i] # n)
    IN write(e, raw, list \o kept)

\* persist(): this.storage.write(this.storageKey, this.notes)
persist(e, raw, list) == write(e, raw, list)

generateId(now, r) == <<now, r>>

SortKey(n) ==
    IF ~Falsy(n, "updatedAt") THEN n.updatedAt
    ELSE IF ~Falsy(n, "createdAt") THEN n.createdAt
    ELSE 0

\* a timestamp string that Date.parse does not read as a date
NotADate == -1

\* Date.parse gives NaN for it
IsNaN(t) == t = NotADate

\* the comparator (a, b) => tb - ta; the difference is NaN when either time is
\* NaN, and Array.prototype.sort reads a NaN from the comparator as +0
compareFn(a, b) ==
    IF IsNaN(SortKey(a)) \/ IsNaN(SortKey(b)) THEN 0 ELSE SortKey(b) - SortKey(a)

RECURSIVE InsertDesc(_, _)
InsertDesc(x, s) ==
    IF s = <<>> THEN <<x>>
    ELSE IF compareFn(x, Head(s)) >= 0
         THEN <<Head(s)>> \o InsertDesc(x, Tail(s))
         ELSE <<x>> \o s

\* Array.prototype.sort with the comparator tb - ta; the sort is stable
RECURSIVE sortDescByUpdatedAt(_)
sortDescByUpdatedAt(list) ==
    IF list = <<>> THEN <<>>
    ELSE InsertDesc(list[Len(list)],
                    sortDescByUpdatedAt(SubSeq(list, 1, Len(list) - 1)))

\* whether the comparator is a consistent one for the elements of list: the
\* pairs it reads as equal must form an equivalence, which fails exactly when
\* a NaN time, equal to every other, stands beside two times that differ
Consistent(list) ==
    \/ \A i \in 1 .. Len(list) : ~IsNaN(SortKey(list[i]))
    \/ \A i, j \in 1 .. Len(list) :
           IsNaN(SortKey(list[i])) \/ IsNaN(SortKey(list[j]))
               \/ SortKey(list[i]) = SortKey(list[j])

\* list in every order
Reorderings(list) ==
    {[i \in 1 .. Len(list) |-> list[p[i]]] : p \in Permutations(1 .. Len(list))}

\* what list.sort(comparator) may leave in the array: the stable descending
\* order, or, when the comparator is not consistent, an order the engine chooses
sortResults(list) ==
    IF Consistent(list) THEN {sortDescByUpdatedAt(list)} ELSE Reorderings(list)

\* SanitizeOne with the tags of the record left out
SanitizeOneNoTags(n) ==
    [id        |-> n.id,
     title     |-> n.title,
     content   |-> IF Has(n, "content") THEN n.content ELSE "",
     createdAt |-> n.createdAt,
     updatedAt |-> n.updatedAt,
     tags      |-> <<>>]

\* the element sanitizeNotes maps a record to, when it keeps it
SanitizeOne(n) ==
    [id        |-> n.id,
     title     |-> n.title,
     content   |-> IF Has(n, "content") THEN n.content ELSE "",
     createdAt |-> n.createdAt,
     updatedAt |-> n.updatedAt,
     tags      |-> IF Has(n, "tags") THEN n.tags ELSE <<>>]

Dropped(n) ==
    Falsy(n, "id") \/ Falsy(n, "title") \/ Falsy(n, "createdAt") \/ Falsy(n, "updatedAt")

RECURSIVE sanitizeNotes(_)
sanitizeNotes(items) ==
    IF items = <<>> THEN <<>>
    ELSE (IF Dropped(Head(items)) THEN <<>> ELSE <<SanitizeOne(Head(items))>>)
         \o sanitizeNotes(Tail(items))

WelcomeContent ==
    "This is your first note. Use the app to create, edit, search, and delete notes. Your notes are stored locally in your browser."
TipsContent ==
    "Use the search to quickly find notes by title, content, or tags. Notes are sorted by most recently updated."

\* seed notes stamped with the time of the call itself
seedNotesStampedNow(now, r1, r2) ==
    << [id        |-> generateId(now, r2),
        title     |-> "Tips",
        content   |-> TipsContent,
        createdAt |-> now,
        updatedAt |-> now,
        tags      |-> <<"tips", "productivity">>],
       [id        |-> generateId(now, r1),
        title     |-> "Welcome to Notes",
        content   |-> WelcomeContent,
        createdAt |-> now,
        updatedAt |-> now,
        tags      |-> <<"welcome", "getting-started">>] >>

seedNotes(now, r1, r2) ==
    LET note1Time == now - SeedOffset1
        note2Time == now - SeedOffset2
        sample ==
            << [id        |-> generateId(now, r1),
                title     |-> "Welcome to Notes",
                content   |-> WelcomeContent,
                createdAt |-> note1Time,
                updatedAt |-> note1Time,
                tags      |-> <<"welcome", "getting-started">>],
               [id        |-> generateId(now, r2),
                title     |-> "Tips",
                content   |-> TipsContent,
                createdAt |-> note2Time,
                updatedAt |-> note2Time,
                tags      |-> <<"tips", "productivity">>] >>
    IN sortDescByUpdatedAt(sample)

\* Array.prototype.findIndex((n) => n.id === id), 1-based; 0 for -1
RECURSIVE findIndexFrom(_, _, _)
findIndexFrom(list, id, i) ==
    IF i > Len(list) THEN 0
    ELSE IF list[i].id = id THEN i
    ELSE findIndexFrom(list, id, i + 1)

findIndex(list, id) == findIndexFrom(list, id, 1)

Undefined == [undefined |-> TRUE]

\* getNote(id): this.notes.find((n) => n.id === id)
getNote(list, id) ==
    IF findIndex(list, id) = 0 THEN Undefined ELSE list[findIndex(list, id)]

\* this.notes.filter((n) => n.id !== id)
RECURSIVE filterOut(_, _)
filterOut(list, id) ==
    IF list = <<>> THEN <<>>
    ELSE (IF Head(list).id # id THEN <<Head(list)>> ELSE <<>>)
         \o filterOut(Tail(list), id)

----------------------------------------------------------------------------
(* Text: a JavaScript string as the sequence of its characters *)

\* the characters of each string the notes of the model carry
Chars(s) ==
    CASE s = "" -> <<>>
      [] s = "Welcome to Notes" -> <<"W", "e", "l", "c", "o", "m", "e", " ", "t", "o", " ", "N", "o", "t", "e", "s">>
      [] s = "Tips" -> <<"T", "i", "p", "s">>
      [] s = "Alpha" -> <<"A", "l", "p", "h", "a">>
      [] s = "Beta" -> <<"B", "e", "t", "a">>
      [] s = "Gamma" -> <<"G", "a", "m", "m", "a">>
      [] s = "Epsilon" -> <<"E", "p", "s", "i", "l", "o", "n">>
      [] s = "Delta" -> <<"D", "e", "l", "t", "a">>
      [] s = "Bare" -> <<"B", "a", "r", "e">>
      [] s = "Anon" -> <<"A", "n", "o", "n">>
      [] s = "Todo" -> <<"T", "o", "d", "o">>
      [] s = "Renamed" -> <<"R", "e", "n", "a", "m", "e", "d">>
      [] s = "first" -> <<"f", "i", "r", "s", "t">>
      [] s = "x" -> <<"x">>
      [] s = "body" -> <<"b", "o", "d", "y">>
      [] s = "edited" -> <<"e", "d", "i", "t", "e", "d">>
      [] s = "welcome" -> <<"w", "e", "l", "c", "o", "m", "e">>
      [] s = "getting-started" -> <<"g", "e", "t", "t", "i", "n", "g", "-", "s", "t", "a", "r", "t", "e", "d">>
      [] s = "tips" -> <<"t", "i", "p", "s">>
      [] s = "productivity" -> <<"p", "r", "o", "d", "u", "c", "t", "i", "v", "i", "t", "y">>
      [] s = "work" -> <<"w", "o", "r", "k">>
      [] s = "home" -> <<"h", "o", "m", "e">>
      [] s = WelcomeContent ->
           <<"T", "h", "i", "s", " ", "i", "s", " ", "y", "o", "u", "r", " ",
             "f", "i", "r", "s", "t", " ", "n", "o", "t", "e", ".", " ", "U", "s",
             "e", " ", "t", "h", "e", " ", "a", "p", "p", " ", "t", "o", " ", "c",
             "r", "e", "a", "t", "e", ",", " ", "e", "d", "i", "t", ",", " ", "s",
             "e", "a", "r", "c", "h", ",", " ", "a", "n", "d", " ", "d", "e", "l",
             "e", "t", "e", " ", "n", "o", "t", "e", "s", ".", " ", "Y", "o", "u",
             "r", " ", "n", "o", "t", "e", "s", " ", "a", "r", "e", " ", "s", "t",
             "o", "r", "e", "d", " ", "l", "o", "c", "a", "l", "l", "y", " ", "i",
             "n", " ", "y", "o", "u", "r", " ", "b", "r", "o", "w", "s", "e", "r",
             ".">>
      [] s = TipsContent ->
           <<"U", "s", "e", " ", "t", "h", "e", " ", "s", "e", "a", "r", "c",
             "h", " ", "t", "o", " ", "q", "u", "i", "c", "k", "l", "y", " ", "f",
             "i", "n", "d", " ", "n", "o", "t", "e", "s", " ", "b", "y", " ", "t",
             "i", "t", "l", "e", ",", " ", "c", "o", "n", "t", "e", "n", "t", ",",
             " ", "o", "r", " ", "t", "a", "g", "s", ".", " ", "N", "o", "t", "e",
             "s", " ", "a", "r", "e", " ", "s", "o", "r", "t", "e", "d", " ", "b",
             "y", " ", "m", "o", "s", "t", " ", "r", "e", "c", "e", "n", "t", "l",
             "y", " ", "u", "p", "d", "a", "t", "e", "d", ".">>

UpperCase == <<"A", "B", "C", "D", "E", "F", "G", "H", "I", "J", "K", "L", "M",
             "N", "O", "P", "Q", "R", "S", "T", "U", "V", "W", "X", "Y", "Z">>
LowerCase == <<"a", "b", "c", "d", "e", "f", "g", "h", "i", "j", "k", "l", "m",
             "n", "o", "p", "q", "r", "s", "t", "u", "v", "w", "x", "y", "z">>

\* String.prototype.toLowerCase, a character at a time
lowerChar(c) ==
    IF \E i \in 1 .. Len(UpperCase) : UpperCase[i] = c
    THEN LowerCase[CHOOSE i \in 1 .. Len(UpperCase) : UpperCase[i] = c]
    ELSE c

toLowerCase(cs) == [i \in 1 .. Len(cs) |-> lowerChar(cs[i])]

IsSpace(c) == c \in {" ", "\t", "\n"}

RECURSIVE trimStart(_)
trimStart(cs) ==
    IF cs # <<>> /\ IsSpace(Head(cs)) THEN trimStart(Tail(cs)) ELSE cs

RECURSIVE trimEnd(_)
trimEnd(cs) ==
    IF cs # <<>> /\ IsSpace(cs[Len(cs)])
    THEN trimEnd(SubSeq(cs, 1, Len(cs) - 1))
    ELSE cs

\* String.prototype.trim
trim(cs) == trimEnd(trimStart(cs))

\* the strings the notes of the model carry
Texts ==
    { "", "Welcome to Notes", "Tips", "Alpha", "Beta", "Gamma", "Delta", "Epsilon",
      "Bare",
      "Anon", "Todo", "Renamed", "first", "x", "body", "edited", "welcome",
      "getting-started", "tips", "productivity", "work", "home",
      WelcomeContent, TipsContent }

\* s.toLowerCase() for each string of the model
lowerText == [s \in Texts |-> toLowerCase(Chars(s))]

\* whether q occurs in cs from position i + 1 on
matchAt(cs, q, i) == \A j \in 1 .. Len(q) : cs[i + j] = q[j]

\* String.prototype.includes: a scan of the positions q may start at
includes(cs, q) == \E i \in 0 .. Len(cs) - Len(q) : matchAt(cs, q, i)

----------------------------------------------------------------------------
(* What the storage may hold when a session starts *)

OldId(k) == <<Past1, k>>

sValid ==
    [id |-> OldId(1), title |-> "Alpha", content |-> "first", tags |-> <<"work">>,
     createdAt |-> Past1, updatedAt |-> Past2]
\* a second record under the id of sValid
sDup ==
    [id |-> OldId(1), title |-> "Beta", content |-> "", tags |-> <<>>,
     createdAt |-> Past2, updatedAt |-> Past2]
\* written under a clock ahead of this session's
sAhead ==
    [id |-> OldId(2), title |-> "Gamma", content |-> "", tags |-> <<>>,
     createdAt |-> Past1, updatedAt |-> Future]
\* createdAt later than updatedAt
sBackwards ==
    [id |-> OldId(3), title |-> "Delta", content |-> "", tags |-> <<>>,
     createdAt |-> Past2, updatedAt |-> Past1]
\* no content and no tags
sBare ==
    [id |-> OldId(4), title |-> "Bare", createdAt |-> Past1, updatedAt |-> Past1]
\* the empty title, as createNote({title: ''}) persists it
sEmptyTitle ==
    [id |-> OldId(5), title |-> "", content |-> "x", tags |-> <<>>,
     createdAt |-> Past2, updatedAt |-> Past2]
\* updatedAt is a string that is not a date
sUndated ==
    [id |-> OldId(6), title |-> "Epsilon", content |-> "", tags |-> <<>>,
     createdAt |-> Past1, updatedAt |-> NotADate]
\* no id
sNoId ==
    [title |-> "Anon", content |-> "", tags |-> <<>>,
     createdAt |-> Past1, updatedAt |-> Past1]

arr(items) == [kind |-> "array", items |-> items]

\* the raw values found under the key when localStorage works
OkStores ==
    { NoValue, Corrupt, Scalar,
      arr(<<>>),
      arr(<<sValid>>),
      arr(<<sValid, sDup>>),
      arr(<<sEmptyTitle, sNoId>>),
      arr(<<sBackwards, sAhead>>),
      arr(<<sUndated>>),
      arr(<<sBare, sEmptyTitle, sValid>>) }

\* <<condition of localStorage, raw value under the key>>
InitialWorlds ==
    {<<"ok", s>> : s \in OkStores}
    \cup {<<"unavailable", arr(<<sValid>>)>>}
    \cup {<<"quota", NoValue>>, <<"quota", arr(<<sValid, sBare>>)>>}

----------------------------------------------------------------------------
(* Operations *)

NoOp == [op |-> "none"]

\* no second instance
NoInstance == [made |-> FALSE, notes |-> <<>>, synced |-> FALSE]

\* the fields of a NotesService that is not the one being called
Instance(list, s) == [made |-> TRUE, notes |-> list, synced |-> s]

\* before the first NotesService is constructed, in one of the given worlds
InitIn(worlds) ==
    /\ \E w \in worlds : env = w[1] /\ store = w[2]
    /\ other = NoInstance
    /\ clock = Epoch
    /\ pc = "boot"
    /\ notes = <<>>
    /\ synced = FALSE
    /\ ops = 0
    /\ last = NoOp

Init == InitIn(InitialWorlds)

\* the body of NotesService.constructor
Construct ==
    LET stored == read(env, store) IN
    IF stored.isArray /\ Len(stored.items) > 0
    THEN /\ notes' \in sortResults(sanitizeNotes(stored.items))
         /\ store' = store
         /\ synced' = FALSE
         /\ last' = [op |-> "constructor",
                     err |-> ErrorOf(readRaises(env, store), FALSE),
                     seeded |-> FALSE,
                     wrote |-> FALSE, now |-> clock, first |-> (pc = "boot"),
                     pre |-> notes, preStore |-> store]
    ELSE \E r1 \in RandVals, d \in 1 .. NumRand :
         /\ notes' = seedNotes(clock, r1, NextRand(r1, d))
         /\ store' = persist(env, store, notes')
         /\ synced' = TRUE
         /\ last' = [op |-> "constructor",
                     err |-> ErrorOf(readRaises(env, store), writeRaises(env)),
                     seeded |-> TRUE,
                     wrote |-> TRUE, now |-> clock, first |-> (pc = "boot"),
                     pre |-> notes, preStore |-> store]

\* NotesService.constructor, when the application starts
Constructor ==
    /\ pc = "boot"
    /\ pc' = "ready"
    /\ Construct
    /\ UNCHANGED <<env, other, clock, ops>>

\* the page is loaded again: a new NotesService is constructed over the same
\* localStorage and replaces the one of the previous page
Reload ==
    /\ pc = "ready"
    /\ ops < MaxOps
    /\ ops' = ops + 1
    /\ Construct
    /\ UNCHANGED <<env, other, clock, pc>>

\* what createNote is called with: {title, content?, tags?}
Payloads ==
    { [title |-> ""],
      [title |-> "Todo", content |-> "body", tags |-> <<"home", "work">>] }

\* the fields, besides id, that an argument of updateNote carries
Patches ==
    { [f \in {} |-> ""],
      [title |-> "Renamed", content |-> "edited"],
      [title |-> "", tags |-> <<"home">>],
      [createdAt |-> Future],
      [createdAt |-> Past1, updatedAt |-> Past1] }

\* an id that no note carries
MissingId == <<0, 0>>

IdsOf(list) == {list[i].id : i \in 1 .. Len(list)}

\* createNote(payload)
NewNote(payload, now, r) ==
    [id        |-> generateId(now, r),
     title     |-> payload.title,
     content   |-> IF Has(payload, "content") THEN payload.content ELSE "",
     tags      |-> IF Has(payload, "tags") THEN payload.tags ELSE <<>>,
     createdAt |-> now,
     updatedAt |-> now]

\* this.notes.push(note) in the place of unshift
push(list, note) == list \o <<note>>

\* this.notes.unshift(note)
unshift(list, note) == <<note>> \o list

CreateNote ==
    /\ pc = "ready"
    /\ ops < MaxOps
    /\ ops' = ops + 1
    /\ \E payload \in Payloads, d \in 1 .. NumRand :
        LET note == NewNote(payload, clock, NumRand + 1 - d) IN
        /\ notes' \in sortResults(unshift(notes, note))
        /\ store' = persist(env, store, notes')
        /\ synced' = TRUE
        /\ last' = [op |-> "createNote", arg |-> payload,
                    err |-> ErrorOf(FALSE, writeRaises(env)),
                    ret |-> note, wrote |-> TRUE, now |-> clock,
                    pre |-> notes, preStore |-> store]
    /\ UNCHANGED <<env, other, clock, pc>>

\* { ...this.notes[idx], updatedAt: now, ...note }: the caller's updatedAt wins
MergeCallerWins(stored, note, now) ==
    [f \in NoteFields |->
        IF Has(note, f) THEN note[f]
        ELSE IF f = "updatedAt" THEN now
        ELSE stored[f]]

\* { ...this.notes[idx], ...note, updatedAt: now }
Merge(stored, note, now) ==
    [f \in NoteFields |->
        IF f = "updatedAt" THEN now
        ELSE IF Has(note, f) THEN note[f]
        ELSE stored[f]]

\* updateNote(note) returning without an error when no note has the id
UpdateNoteMissingSilent ==
    /\ pc = "ready"
    /\ ops < MaxOps
    /\ ops' = ops + 1
    /\ \E id \in IdsOf(notes) \cup {MissingId}, patch \in Patches :
        LET note == patch @@ [id |-> id]
            idx == findIndex(notes, note.id) IN
        /\ idx = 0
        /\ last' = [op |-> "updateNote", arg |-> note, err |-> "none",
                    ret |-> note, wrote |-> FALSE, now |-> clock,
                    pre |-> notes, preStore |-> store]
    /\ UNCHANGED <<env, other, store, clock, pc, notes, synced>>

\* updateNote(note) when no note has the id: throw new Error('Note not found')
UpdateNoteMissing ==
    /\ pc = "ready"
    /\ ops < MaxOps
    /\ ops' = ops + 1
    /\ \E id \in IdsOf(notes) \cup {MissingId}, patch \in Patches :
        LET note == patch @@ [id |-> id]
            idx == findIndex(notes, note.id) IN
        /\ idx = 0
        /\ last' = [op |-> "updateNote", arg |-> note, err |-> "Note not found",
                    wrote |-> FALSE, now |-> clock,
                    pre |-> notes, preStore |-> store]
    /\ UNCHANGED <<env, other, store, clock, pc, notes, synced>>

\* updateNote(note) when a note has the id
UpdateNote ==
    /\ pc = "ready"
    /\ ops < MaxOps
    /\ ops' = ops + 1
    /\ \E id \in IdsOf(notes) \cup {MissingId}, patch \in Patches :
        LET note == patch @@ [id |-> id]
            idx == findIndex(notes, note.id) IN
        /\ idx # 0
        /\ LET updated == Merge(notes[idx], note, clock) IN
            /\ notes' \in sortResults([notes EXCEPT ![idx] = updated])
            /\ store' = persist(env, store, notes')
            /\ synced' = TRUE
            /\ last' = [op |-> "updateNote", arg |-> note,
                        err |-> ErrorOf(FALSE, writeRaises(env)),
                        ret |-> updated, wrote |-> TRUE, now |-> clock,
                        pre |-> notes, preStore |-> store]
    /\ UNCHANGED <<env, other, clock, pc>>

\* deleteNote with the call of persist() left out
deletePersistsNever(before, after) == FALSE

\* deleteNote calling persist() whether or not a note was removed
deletePersistsAlways(before, after) == TRUE

\* deleteNote: if (this.notes.length !== before) this.persist()
deletePersists(before, after) == after # before

\* deleteNote(id)
DeleteNote ==
    /\ pc = "ready"
    /\ ops < MaxOps
    /\ ops' = ops + 1
    /\ \E id \in IdsOf(notes) \cup {MissingId} :
        LET before == Len(notes) IN
        /\ notes' = filterOut(notes, id)
        /\ IF deletePersists(before, Len(notes'))
           THEN /\ store' = persist(env, store, notes')
                /\ synced' = TRUE
                /\ last' = [op |-> "deleteNote", arg |-> id,
                            err |-> ErrorOf(FALSE, writeRaises(env)),
                            wrote |-> TRUE, now |-> clock,
                            pre |-> notes, preStore |-> store]
           ELSE /\ store' = store
                /\ synced' = synced
                /\ last' = [op |-> "deleteNote", arg |-> id, err |-> "none",
                            wrote |-> FALSE, now |-> clock,
                            pre |-> notes, preStore |-> store]
    /\ UNCHANGED <<env, other, clock, pc>>

\* the query listNotes is called with: none, or a string
NoQuery == [given |-> FALSE, text |-> <<>>]
Query(cs) == [given |-> TRUE, text |-> cs]

Queries ==
    { NoQuery,
      Query(<<>>),
      Query(<<" ", " ">>),
      Query(<<" ", "T", "I", "P", " ">>),
      Query(<<"W", "o", "r", "k">>),
      Query(<<"F", "I", "R", "S", "T">>) }

\* Array.prototype.some over the tags
RECURSIVE someTag(_, _)
someTag(tags, q) ==
    IF tags = <<>> THEN FALSE
    ELSE includes(lowerText[Head(tags)], q) \/ someTag(Tail(tags), q)

\* the predicate listNotes filters with
\* a filter that looks at the title and the content only
matchesNoTags(n, q) ==
    includes(lowerText[n.title], q) \/ includes(lowerText[n.content], q)

matches(n, q) ==
    LET inTitle == includes(lowerText[n.title], q)
        inContent == includes(lowerText[n.content], q)
        inTags == someTag(n.tags, q)
    IN inTitle \/ inContent \/ inTags

\* Array.prototype.filter
RECURSIVE filterMatches(_, _)
filterMatches(list, q) ==
    IF list = <<>> THEN <<>>
    ELSE (IF matches(Head(list), q) THEN <<Head(list)>> ELSE <<>>)
         \o filterMatches(Tail(list), q)

\* what listNotes(query?) returns once the copy is sorted
filterByQuery(sorted, query) ==
    IF ~query.given \/ query.text = <<>> THEN sorted
    ELSE LET q == trim(toLowerCase(query.text)) IN
         IF q = <<>> THEN sorted
         ELSE filterMatches(sorted, q)

\* listNotes(query?): a sorted copy of the collection, filtered by the query;
\* the arrays the call may return
listNotes(list, query) ==
    {filterByQuery(sorted, query) : sorted \in sortResults(list)}

ListNotes ==
    /\ pc = "ready"
    /\ ops < MaxOps
    /\ ops' = ops + 1
    /\ \E query \in Queries :
        \E ret \in listNotes(notes, query) :
            last' = [op |-> "listNotes", arg |-> query, err |-> "none",
                     ret |-> ret, wrote |-> FALSE, now |-> clock,
                     pre |-> notes, preStore |-> store]
    /\ UNCHANGED <<env, other, store, clock, pc, notes, synced>>

GetNote ==
    /\ pc = "ready"
    /\ ops < MaxOps
    /\ ops' = ops + 1
    /\ \E id \in IdsOf(notes) \cup {MissingId} :
        last' = [op |-> "getNote", arg |-> id, err |-> "none",
                 ret |-> getNote(notes, id), wrote |-> FALSE, now |-> clock,
                 pre |-> notes, preStore |-> store]
    /\ UNCHANGED <<env, other, store, clock, pc, notes, synced>>

\* the clock advances by a millisecond
Tick ==
    /\ pc = "ready"
    /\ ops < MaxOps
    /\ ops' = ops + 1
    /\ clock' = clock + 1
    /\ UNCHANGED <<env, other, store, pc, notes, synced, last>>

Next ==
    \/ Constructor
    \/ Reload
    \/ CreateNote
    \/ UpdateNoteMissing
    \/ UpdateNote
    \/ DeleteNote
    \/ ListNotes
    \/ GetNote
    \/ Tick

Spec == Init /\ [][Next]_vars

----------------------------------------------------------------------------
(* Two NotesService instances over one localStorage *)

\* a second NotesService is constructed over the same localStorage, as in
\* another tab; the calls that follow go to it
SecondInstance ==
    /\ pc = "ready"
    /\ ~other.made
    /\ other' = Instance(notes, synced)
    /\ Construct
    /\ UNCHANGED <<env, clock, pc, ops>>

\* the calls that follow go to the other instance
Switch ==
    /\ pc = "ready"
    /\ other.made
    /\ notes' = other.notes
    /\ synced' = other.synced
    /\ other' = Instance(notes, synced)
    /\ last' = [op |-> "switch"]
    /\ UNCHANGED <<env, store, clock, pc, ops>>

NextTwo ==
    \/ Constructor
    \/ SecondInstance
    \/ Switch
    \/ CreateNote
    \/ UpdateNote
    \/ DeleteNote

\* later runs, in a browser whose localStorage works
TwoWorlds == {<<"ok", arr(<<sValid>>)>>, <<"ok", arr(<<sBackwards, sAhead>>)>>}

InitTwo == InitIn(TwoWorlds)

SpecTwo == InitTwo /\ [][NextTwo]_vars

----------------------------------------------------------------------------
(* StorageService called on its own, beside the repository *)

\* a value handed to write(key, value)
WrittenValues == {<<sValid>>}

\* storage.read(NOTES_KEY)
StorageRead ==
    /\ pc = "ready"
    /\ ops < MaxOps
    /\ ops' = ops + 1
    /\ last' = [op |-> "read", err |-> ErrorOf(readRaises(env, store), FALSE),
                ret |-> read(env, store), wrote |-> FALSE, now |-> clock,
                pre |-> notes, preStore |-> store]
    /\ UNCHANGED <<env, other, store, clock, pc, notes, synced>>

\* storage.write(NOTES_KEY, value)
StorageWrite ==
    /\ pc = "ready"
    /\ ops < MaxOps
    /\ ops' = ops + 1
    /\ \E value \in WrittenValues :
        /\ store' = write(env, store, value)
        /\ last' = [op |-> "write", arg |-> value,
                    err |-> ErrorOf(FALSE, writeRaises(env)),
                    wrote |-> TRUE, now |-> clock,
                    pre |-> notes, preStore |-> store]
    /\ UNCHANGED <<env, other, clock, pc, notes, synced>>

\* storage.remove(NOTES_KEY)
StorageRemove ==
    /\ pc = "ready"
    /\ ops < MaxOps
    /\ ops' = ops + 1
    /\ store' = remove(env, store)
    /\ last' = [op |-> "remove", err |-> ErrorOf(FALSE, removeRaises(env)),
                wrote |-> FALSE, now |-> clock,
                pre |-> notes, preStore |-> store]
    /\ UNCHANGED <<env, other, clock, pc, notes, synced>>

NextStorage ==
    \/ Next
    \/ StorageRead
    \/ StorageWrite
    \/ StorageRemove

SpecStorage == Init /\ [][NextStorage]_vars

----------------------------------------------------------------------------
(* Properties *)

IsReload == last.op = "constructor" /\ ~last.first

IsSeed(list, now) == \E r1, r2 \in RandVals : list = seedNotes(now, r1, r2)

\* what the raw value decodes to is exactly the collection
Mirrors(raw, list) == read("ok", raw) = [isArray |-> TRUE, items |-> list]

\* C1: after updateNote on a present id, the returned note is held in the
\* collection and has the id and the createdAt the stored note had before,
\* whatever fields the argument carries.
C1_UpdatePreservesIdAndCreatedAt ==
    (last.op = "updateNote" /\ last.err = "none") =>
        LET old == last.pre[findIndex(last.pre, last.arg.id)] IN
        /\ \E i \in 1 .. Len(notes) : notes[i] = last.ret
        /\ last.ret.id = old.id
        /\ last.ret.createdAt = old.createdAt

C3_SeedsWhenNothingValid ==
    (/\ last.op = "constructor"
     /\ read(env, last.preStore).isArray
     /\ Len(read(env, last.preStore).items) > 0
     /\ sanitizeNotes(read(env, last.preStore).items) = <<>>) =>
        /\ IsSeed(notes, last.now)
        /\ env = "ok" => Mirrors(store, notes)

\* C4 (as stated): over a store that works, from the moment the constructor
\* returns, the stored value decodes to exactly the in-memory collection.
C4_MirrorFromConstruction ==
    (env = "ok" /\ pc = "ready") => Mirrors(store, notes)

\* C4 (amended): over a store that works, from the first time the repository
\* persists (seeding, createNote, updateNote on a present id, a deleteNote
\* that removes), the stored value decodes to exactly the in-memory collection.
C4_MirrorOncePersisted ==
    (env = "ok" /\ pc = "ready" /\ synced) => Mirrors(store, notes)

C4_Witness ==
    /\ env = "ok" /\ synced
    /\ last.op = "deleteNote" /\ last.wrote
    /\ ~Mirrors(last.preStore, last.pre)
    /\ Mirrors(store, notes)

\* C5: updateNote on an id that no note of the collection has raises
\* 'Note not found', writes nothing, and leaves the collection and the stored
\* value as they were.
C5_UpdateMissingRaises ==
    (last.op = "updateNote" /\ last.arg.id \notin IdsOf(last.pre)) =>
        /\ last.err = "Note not found"
        /\ ~last.wrote
        /\ notes = last.pre
        /\ store = last.preStore

C5_Witness ==
    /\ last.op = "updateNote" /\ last.arg.id \notin IdsOf(last.pre)
    /\ last.err = "Note not found"
    /\ Len(notes) >= 2
    /\ Has(last.arg, "title")

\* C6: deleteNote of an id that no note of the collection has returns
\* without an error, writes nothing, and leaves the collection and the stored
\* value as they were.
C6_DeleteMissingNoEffect ==
    (last.op = "deleteNote" /\ last.arg \notin IdsOf(last.pre)) =>
        /\ last.err = "none"
        /\ ~last.wrote
        /\ notes = last.pre
        /\ store = last.preStore

C6_Witness ==
    /\ last.op = "deleteNote" /\ last.arg \notin IdsOf(last.pre)
    /\ Len(notes) >= 2
    /\ env = "ok" /\ ~Mirrors(store, notes)

\* C7: getNote of the id createNote returned, right after createNote, gives a
\* note with the payload's title, content ('' when omitted) and tags (empty
\* when omitted), and with createdAt equal to updatedAt.
C7_CreateThenGet ==
    last.op = "createNote" =>
        LET got == getNote(notes, last.ret.id) IN
        /\ got # Undefined
        /\ got.title = last.arg.title
        /\ got.content = (IF Has(last.arg, "content") THEN last.arg.content ELSE "")
        /\ got.tags = (IF Has(last.arg, "tags") THEN last.arg.tags ELSE <<>>)
        /\ got.createdAt = got.updatedAt

\* createNote with content and tags omitted, while another note has the id
C7_Witness ==
    /\ last.op = "createNote"
    /\ ~Has(last.arg, "content") /\ ~Has(last.arg, "tags")
    /\ \E i \in 2 .. Len(notes) :
        notes[i].id = last.ret.id /\ notes[i].title # last.arg.title
    /\ getNote(notes, last.ret.id).content = ""

\* C8: no two notes of the in-memory collection have the same id; stated for
\* the first states the claim covers, those the constructor reaches by loading
\* a stored value (the ids there are the stored ones, none is generated).
C8_IdsUnique ==
    (last.op = "constructor" /\ ~last.seeded) =>
        \A i, j \in 1 .. Len(notes) : i # j => notes[i].id # notes[j].id

\* C9: createdAt <= updatedAt for every note of the in-memory collection, in
\* every state from construction on.
C9_CreatedNotAfterUpdated ==
    pc = "ready" =>
        \A i \in 1 .. Len(notes) : notes[i].createdAt <= notes[i].updatedAt

\* C10 (as stated): updateNote on a present id returns the note with
\* updatedAt set to the current time, whatever updatedAt the argument has,
\* and that time is not before the updatedAt the note had.
C10_UpdateStampsNowNeverEarlier ==
    (last.op = "updateNote" /\ last.err = "none") =>
        LET old == last.pre[findIndex(last.pre, last.arg.id)] IN
        /\ last.ret.updatedAt = last.now
        /\ last.ret.updatedAt >= old.updatedAt

\* C10 (amended): updateNote on a present id returns the note, held in the
\* collection, with updatedAt set to the current time, whatever updatedAt the
\* argument has; that time is not before the updatedAt the note had whenever
\* the note's updatedAt was not later than the current time.
C10_UpdateStampsNow ==
    (last.op = "updateNote" /\ last.err = "none") =>
        LET old == last.pre[findIndex(last.pre, last.arg.id)] IN
        /\ last.ret.updatedAt = last.now
        /\ \E i \in 1 .. Len(notes) : notes[i] = last.ret
        /\ old.updatedAt <= last.now => last.ret.updatedAt >= old.updatedAt

C10_Witness ==
    /\ last.op = "updateNote" /\ last.err = "none"
    /\ Has(last.arg, "updatedAt") /\ last.arg.updatedAt # last.now
    /\ last.pre[findIndex(last.pre, last.arg.id)].updatedAt < last.now
    /\ last.ret.updatedAt = last.now
    /\ last.now > Epoch

(***************************************************************************)
(* C11: listNotes(query) with a query that is non-empty after trimming     *)
(* returns exactly the notes whose lower-cased title, content or some tag  *)
(* contains the lower-cased trimmed query: no matching note is omitted, no *)
(* other note is returned. With an absent, empty or whitespace-only query  *)
(* it returns every note.                                                  *)
(***************************************************************************)
\* how many times x occurs in list
Count(x, list) == Cardinality({i \in 1 .. Len(list) : list[i] = x})

\* whether q is a contiguous run of characters of cs
Contains(cs, q) ==
    \E i \in 1 .. Len(cs) - Len(q) + 1 : SubSeq(cs, i, i + Len(q) - 1) = q

Wanted(n, q) ==
    \/ Contains(lowerText[n.title], q)
    \/ Contains(lowerText[n.content], q)
    \/ \E t \in 1 .. Len(n.tags) : Contains(lowerText[n.tags[t]], q)

\* the query of the last listNotes call, trimmed and lower-cased
LastQuery == IF last.arg.given THEN trim(toLowerCase(last.arg.text)) ELSE <<>>

C11_QueryFiltersExactly ==
    last.op = "listNotes" =>
        IF LastQuery = <<>>
        THEN /\ Len(last.ret) = Len(last.pre)
             /\ \A i \in 1 .. Len(last.pre) :
                    Count(last.pre[i], last.ret) = Count(last.pre[i], last.pre)
        ELSE /\ \A i \in 1 .. Len(last.ret) :
                    /\ Wanted(last.ret[i], LastQuery)
                    /\ Count(last.ret[i], last.pre) > 0
             /\ \A i \in 1 .. Len(last.pre) :
                    Wanted(last.pre[i], LastQuery) =>
                        Count(last.pre[i], last.ret) = Count(last.pre[i], last.pre)

\* a query in upper case matched one note through its tag alone and left
\* another note out
C11_Witness ==
    /\ last.op = "listNotes"
    /\ last.arg = Query(<<"W", "o", "r", "k">>)
    /\ Len(last.ret) > 0
    /\ Len(last.ret) < Len(last.pre)
    /\ \E i \in 1 .. Len(last.ret) : ~matchesNoTags(last.ret[i], LastQuery)

(***************************************************************************)
(* C12: the result of listNotes, with or without a query, is ordered so    *)
(* that for every adjacent pair (a, b) a.updatedAt >= b.updatedAt, and it  *)
(* contains each note of the collection at most once.                      *)
(***************************************************************************)
\* the time ta is not earlier than the time tb; no order holds between a
\* time and a NaN
NotEarlier(ta, tb) == ~IsNaN(ta) /\ ~IsNaN(tb) /\ ta >= tb

C12_ListSortedNoRepeats ==
    last.op = "listNotes" =>
        /\ \A i \in 1 .. Len(last.ret) - 1 :
               NotEarlier(last.ret[i].updatedAt, last.ret[i + 1].updatedAt)
        /\ \A i \in 1 .. Len(last.ret) :
               Count(last.ret[i], last.ret) <= Count(last.ret[i], last.pre)

(***************************************************************************)
(* C13: when the store is unavailable, holds no value under the key, or    *)
(* holds a payload that cannot be decoded, constructing the repository     *)
(* yields exactly the two seed notes, "Welcome to Notes" stamped one hour  *)
(* before now and "Tips" stamped ten minutes before now, each with         *)
(* createdAt equal to updatedAt, and at once attempts to persist them.     *)
(***************************************************************************)
Unreadable == env = "unavailable" \/ last.preStore.kind \in {"absent", "corrupt"}

SeedStamped(n, title, age) ==
    /\ n.title = title
    /\ n.updatedAt = last.now - age
    /\ n.createdAt = n.updatedAt

C13_SeedsOnUnreadableStore ==
    (last.op = "constructor" /\ Unreadable) =>
        /\ Len(notes) = 2
        /\ \E i, j \in 1 .. 2 :
              /\ i # j
              /\ SeedStamped(notes[i], "Welcome to Notes", 60 * 60 * 1000)
              /\ SeedStamped(notes[j], "Tips", 10 * 60 * 1000)
        /\ last.wrote
        /\ env = "ok" => Mirrors(store, notes)
        /\ env # "ok" => store = last.preStore

\* a repository constructed over a payload that does not decode, with the
\* seeds written over it
C13_Witness ==
    /\ last.op = "constructor"
    /\ last.preStore = Corrupt
    /\ env = "ok"
    /\ Len(notes) = 2
    /\ notes[1].title = "Tips"
    /\ store = JSONstringify(notes)

(***************************************************************************)
(* C14: store failures never propagate.  Whatever the condition of the     *)
(* store (unavailable, key absent, malformed payload, write rejected),     *)
(* read returns null instead of raising, write and remove return normally  *)
(* and leave the store unchanged, and construction, createNote, updateNote *)
(* on a present id and deleteNote complete without error and apply their   *)
(* effect to the collection in memory; the only error an operation raises  *)
(* is 'Note not found' from updateNote.                                    *)
(***************************************************************************)
C14_StoreFailuresStayInside ==
    /\ (last.op # "none" /\ last.err # "none") =>
           /\ last.op = "updateNote"
           /\ last.err = "Note not found"
           /\ findIndex(last.pre, last.arg.id) = 0
    /\ (last.op = "read" /\ Unreadable) => last.ret = NullValue
    /\ (last.op = "write" /\ env # "ok") => store = last.preStore
    /\ (last.op = "remove" /\ env = "unavailable") => store = last.preStore
    /\ last.op = "constructor" =>
           /\ pc = "ready"
           /\ Unreadable => Len(notes) = 2
    /\ last.op = "createNote" =>
           /\ Len(notes) = Len(last.pre) + 1
           /\ Count(last.ret, notes) > 0
    /\ (last.op = "updateNote" /\ findIndex(last.pre, last.arg.id) # 0) =>
           /\ last.err = "none"
           /\ Count(last.ret, notes) > 0
           /\ last.ret.updatedAt = last.now
    /\ last.op = "deleteNote" => findIndex(notes, last.arg) = 0

\* the browser rejected the write of createNote: the stored value is as it
\* was, the note is in the collection and no error reached the caller
C14_Witness ==
    /\ last.op = "createNote"
    /\ env = "quota"
    /\ setItemThrows(env)
    /\ last.err = "none"
    /\ store = last.preStore
    /\ Count(last.ret, notes) > 0
    /\ Count(last.ret, last.preStore.items) = 0

(***************************************************************************)
(* C15: two repository instances over the same store do not coordinate.    *)
(* When one instance has persisted a mutation and the other, constructed   *)
(* before that mutation, then persists a mutation of its own, the stored   *)
(* value equals the second writer's collection, the first writer's change  *)
(* is absent from the store, and no error is raised: the last write wins.  *)
(***************************************************************************)
Mutations == {"createNote", "updateNote", "deleteNote"}

C15_LastWriteWins ==
    (other.made /\ last.op \in Mutations /\ last.wrote /\ env = "ok") =>
        /\ last.err = "none"
        /\ store = JSONstringify(notes)
        /\ \A i \in 1 .. Len(other.notes) :
               Count(other.notes[i], notes) = 0
                   => Count(other.notes[i], store.items) = 0

\* a note that the other instance created and wrote to the store is not in
\* the store any more after this instance persisted a collection without it
C15_Witness ==
    /\ other.made
    /\ last.op \in Mutations
    /\ last.wrote
    /\ env = "ok"
    /\ \E i \in 1 .. Len(other.notes) :
          /\ other.notes[i].title = "Todo"
          /\ Count(other.notes[i], last.preStore.items) > 0
          /\ Count(other.notes[i], last.pre) = 0
          /\ Count(other.notes[i], store.items) = 0

(***************************************************************************)
(* C16: deleteNote(id) for an id present in the collection removes exactly *)
(* that note: afterwards getNote(id) is absent, every other note is still  *)
(* present with all its fields and in the same relative order, the new     *)
(* collection is written to the store, and a second deleteNote(id) changes *)
(* nothing.                                                                *)
(***************************************************************************)
\* list without its element at position idx
WithoutAt(list, idx) == SubSeq(list, 1, idx - 1) \o SubSeq(list, idx + 1, Len(list))

C16_DeleteRemovesExactlyThat ==
    (last.op = "deleteNote" /\ findIndex(last.pre, last.arg) # 0) =>
        /\ getNote(notes, last.arg) = Undefined
        /\ notes = WithoutAt(last.pre, findIndex(last.pre, last.arg))
        /\ last.wrote
        /\ env = "ok" => store = JSONstringify(notes)
        /\ filterOut(notes, last.arg) = notes

(***************************************************************************)
(* C17: most recently written first.  Right after createNote or updateNote *)
(* returns a note n, n is the first element of listNotes(), whenever the   *)
(* clock has not gone back and no note has an updatedAt later than the     *)
(* current time, also when several notes are written within the same       *)
(* timestamp so that their updatedAt values are equal.                     *)
(***************************************************************************)
\* no note of list is stamped later than now
NoneLater(list, now) ==
    \A i \in 1 .. Len(list) : IsNaN(list[i].updatedAt) \/ list[i].updatedAt <= now

====
